---- MODULE Spec2Model ----
(***************************************************************************)
(* Definition-path printing of librustc/ty/print/mod.rs:                   *)
(* Printer::default_print_def_path, Printer::generic_args_to_print,        *)
(* Printer::default_print_impl_path and characteristic_def_id_of_type.     *)
(*                                                                         *)
(* The definition store (tcx) is read-only data chosen in Init.  The       *)
(* Printer's required methods (path_crate, path_qualified, path_append,    *)
(* path_append_impl, path_generic_args) have no body in the trait: every   *)
(* call of one is recorded in `calls`, and a method that takes a           *)
(* print_prefix closure (an FnOnce) either invokes it once or drops it.    *)
(***************************************************************************)
EXTENDS Integers, Sequences, FiniteSets, TLC

\* Number of definitions in the store (indices 0 .. NumDefs-1; 0 is the crate root).
NumDefs == 4
\* Longest substitution passed to print_def_path.
MaxSubsts == 3
\* Longest own parameter list and substitution tail drawn for generic_args_to_print alone.
MaxParams == 3

-----------------------------------------------------------------------------
(* Option<T>: None is the empty sequence, Some(x) the one-element one.     *)
None == <<>>
Some(x) == <<x>>
IsSome(o) == o # <<>>
Unwrap(o) == o[1]

Min(a, b) == IF a <= b THEN a ELSE b

(* The single crate of the store, and DefId { krate, index }.               *)
LOCAL_CRATE == "c"
DefIndices == 0 .. (NumDefs - 1)
DefIdOf(i) == [krate |-> LOCAL_CRATE, index |-> i]
DefIds == { DefIdOf(i) : i \in DefIndices }

-----------------------------------------------------------------------------
(* Ty<'tcx>: ty.sty is the constructor; did the DefId it carries (Adt,     *)
(* FnDef, Closure, Generator, Foreign; Dynamic carries its principal, an   *)
(* Option); idx the index of a Param; tys the contained types.             *)
Ty(sty, did, idx, tys) == [sty |-> sty, did |-> did, idx |-> idx, tys |-> tys]
TyBool == Ty("Bool", None, 0, <<>>)
TyStr == Ty("Str", None, 0, <<>>)
TyError == Ty("Error", None, 0, <<>>)
TyParam(i) == Ty("Param", None, i, <<>>)
TyAdt(d) == Ty("Adt", Some(d), 0, <<>>)
TyFnDef(d) == Ty("FnDef", Some(d), 0, <<>>)
TyForeign(d) == Ty("Foreign", Some(d), 0, <<>>)
TyDynamic(principal) == Ty("Dynamic", principal, 0, <<>>)
TyRef(t) == Ty("Ref", None, 0, <<t>>)
TySlice(t) == Ty("Slice", None, 0, <<t>>)
TyRawPtr(t) == Ty("RawPtr", None, 0, <<t>>)
TyTuple(ts) == Ty("Tuple", None, 0, ts)

(* Kind<'tcx>: a generic argument, a type, a lifetime or a const.          *)
KindFrom(ty) == [kind |-> "Type", ty |-> ty]
KindLifetime == [kind |-> "Lifetime", ty |-> TyError]
KindConst == [kind |-> "Const", ty |-> TyError]

(* The first Some of a sequence of Options: filter_map(..).next().         *)
RECURSIVE FirstSome(_)
FirstSome(opts) ==
    IF opts = <<>> THEN None
    ELSE IF IsSome(Head(opts)) THEN Head(opts)
    ELSE FirstSome(Tail(opts))

RECURSIVE characteristic_def_id_of_type(_)
characteristic_def_id_of_type(ty) ==
    CASE ty.sty = "Adt" -> ty.did
      [] ty.sty = "Dynamic" -> ty.did
      [] ty.sty \in {"Array", "Slice"} -> characteristic_def_id_of_type(ty.tys[1])
      [] ty.sty = "RawPtr" -> characteristic_def_id_of_type(ty.tys[1])
      [] ty.sty = "Ref" -> characteristic_def_id_of_type(ty.tys[1])
      [] ty.sty = "Tuple" ->
            FirstSome([j \in DOMAIN ty.tys |-> characteristic_def_id_of_type(ty.tys[j])])
      [] ty.sty \in {"FnDef", "Closure", "Generator", "Foreign"} -> ty.did
      [] OTHER -> None

(* ty.subst(tcx, substs): a Param is replaced by the argument at its       *)
(* index; an index past the substitution, or an argument that is no type,  *)
(* is a compiler bug (a panic), shown here as the type "SubstBug".         *)
TySubstBug == Ty("SubstBug", None, 0, <<>>)
RECURSIVE SubstTy(_, _)
SubstTy(ty, s) ==
    IF ty.sty = "Param"
    THEN IF ty.idx < Len(s) /\ s[ty.idx + 1].kind = "Type"
         THEN s[ty.idx + 1].ty
         ELSE TySubstBug
    ELSE [ty EXCEPT !.tys = [j \in DOMAIN ty.tys |-> SubstTy(ty.tys[j], s)]]

RECURSIVE HasSubstBug(_)
HasSubstBug(ty) ==
    \/ ty.sty = "SubstBug"
    \/ \E j \in DOMAIN ty.tys : HasSubstBug(ty.tys[j])

SubstKind(k, s) == IF k.kind = "Type" THEN KindFrom(SubstTy(k.ty, s)) ELSE k

(* ty::TraitRef { def_id, substs }; substs[0] is the Self type.            *)
TraitRef(d, s) == [def_id |-> d, substs |-> s]
TraitRef_self_ty(tr) == tr.substs[1].ty
SubstTraitRef(otr, s) ==
    IF otr = None THEN None
    ELSE Some(TraitRef(Unwrap(otr).def_id,
                       [j \in DOMAIN Unwrap(otr).substs |-> SubstKind(Unwrap(otr).substs[j], s)]))

-----------------------------------------------------------------------------
(* ty::Generics { parent, parent_count, params, has_self } and             *)
(* ty::GenericParamDef { index, kind }; `default` is type_of(param.def_id).*)
Param(index, kind, has_default, default) ==
    [index |-> index, kind |-> kind, has_default |-> has_default, default |-> default]
Generics(parent, parent_count, params, has_self) ==
    [parent |-> parent, parent_count |-> parent_count, params |-> params,
     has_self |-> has_self]
count(generics) == generics.parent_count + Len(generics.params)


-----------------------------------------------------------------------------
(* Printer::generic_args_to_print, lines 184-210.                          *)

(* The take_while closure, lines 197-206.                                  *)
DefaultElided(param, s) ==
    CASE param.kind = "Lifetime" -> FALSE
      [] param.kind = "Type" ->
            /\ param.has_default
            /\ s[param.index + 1] = KindFrom(SubstTy(param.default, s))
      [] param.kind = "Const" -> FALSE

(* Whether that closure panics on param: substs[param.index] is past the   *)
(* end of the substitution, or the default's subst meets a parameter with   *)
(* no type argument.  has_default && .. short-circuits, so only a Type      *)
(* parameter with a default is looked up.                                   *)
ClosurePanics(param, s) ==
    /\ param.kind = "Type"
    /\ param.has_default
    /\ \/ param.index >= Len(s)
       \/ HasSubstBug(SubstTy(param.default, s))

(* A variant for comparison: filter(..) in place of take_while(..), which   *)
(* elides every argument equal to its default, not just the trailing ones. *)
FilterCount(params, s) ==
    IF \E j \in DOMAIN params : ClosurePanics(params[j], s) THEN 0 - 1
    ELSE Cardinality({ j \in DOMAIN params : DefaultElided(params[j], s) })

(* params.iter().rev().take_while(..).count(); -1 when the closure panics.  *)
RECURSIVE TakeWhileRevCount(_, _)
TakeWhileRevCount(params, s) ==
    IF params = <<>> THEN 0
    ELSE LET last == params[Len(params)] IN
         IF ClosurePanics(last, s) THEN 0 - 1
         ELSE IF DefaultElided(last, s)
              THEN LET rest == TakeWhileRevCount(SubSeq(params, 1, Len(params) - 1), s) IN
                   IF rest < 0 THEN rest ELSE rest + 1
              ELSE 0

(* The result: panic is TRUE when an index or the final slice              *)
(* &substs[own_params] is out of bounds; otherwise args is the slice and   *)
(* start, end its (0-based, half-open) range.                              *)
generic_args_to_print(generics, s) ==
    LET start0 == generics.parent_count
        start == IF generics.has_self /\ start0 = 0 THEN 1 ELSE start0
        n == TakeWhileRevCount(generics.params, s)
        end == count(generics) - n
        panic == n < 0 \/ start > end \/ end > Len(s)
    IN [panic |-> panic,
        start |-> start,
        end |-> IF panic THEN start ELSE end,
        args |-> IF panic THEN <<>> ELSE SubSeq(s, start + 1, end)]

-----------------------------------------------------------------------------
(* The definition store.  A definition is its DefKey (parent,              *)
(* disambiguated_data), its Generics, and for an impl its self type        *)
(* (type_of) and impl_trait_ref.                                           *)
DefPathData(kind, name) == [kind |-> kind, name |-> name]
DefKey(parent, data) ==
    [parent |-> parent, disambiguated_data |-> [data |-> data, disambiguator |-> 0]]
Def(key, generics, ty, tr) ==
    [key |-> key, generics |-> generics, type_of |-> ty, impl_trait_ref |-> tr]

NoGenerics == Generics(None, 0, <<>>, FALSE)
TheCrateRoot == Def(DefKey(None, DefPathData("CrateRoot", 0)), NoGenerics, TyError, None)
(* A module-like definition: named, no generic parameters.                 *)
PlainDef(i, p) == Def(DefKey(Some(p), DefPathData("TypeNs", i)), NoGenerics, TyError, None)

(* Own parameter lists whose first index is `first`: none, <T>,            *)
(* <T = bool>.                                                             *)
OwnLists(first) ==
    { <<>>, <<Param(first, "Type", FALSE, TyError)>>, <<Param(first, "Type", TRUE, TyBool)>> }
SelfParam == Param(0, "Type", FALSE, TyError)

(* Generics of a named definition with key.parent p whose Generics are pg: *)
(* an item with its own parameters, a trait (has_self, Self first), or an  *)
(* associated item (parent link to p, p's parameters first).               *)
NamedGenerics(p, pg) ==
    { Generics(None, 0, l, FALSE) : l \in OwnLists(0) }
    \cup { Generics(None, 0, <<SelfParam>> \o l, TRUE) :
             l \in {<<>>, <<Param(1, "Type", TRUE, TyBool)>>} }
    \cup { Generics(Some(DefIdOf(p)), count(pg), l, pg.has_self) : l \in OwnLists(count(pg)) }
(* Generics of a closure in p: p's parameters, then the closure's own      *)
(* (its captures).                                                         *)
ClosureGenerics(p, pg) ==
    { Generics(Some(DefIdOf(p)), count(pg), <<Param(count(pg), "Type", FALSE, TyError)>>,
               pg.has_self) }

(* A definition other than i that an impl at i may name as its self type   *)
(* or trait.  The impls: `impl bool`, `impl Other`, and                    *)
(* `impl<T> Other for T`.                                                  *)
OtherDef(i) == DefIdOf(IF i = 1 THEN 2 ELSE 1)
ImplDefs(i, p) ==
    { Def(DefKey(Some(p), DefPathData("Impl", 0)), NoGenerics, TyBool, None),
      Def(DefKey(Some(p), DefPathData("Impl", 0)), NoGenerics, TyAdt(OtherDef(i)), None),
      Def(DefKey(Some(p), DefPathData("Impl", 0)),
          Generics(None, 0, <<Param(0, "Type", FALSE, TyError)>>, FALSE), TyParam(0),
          Some(TraitRef(OtherDef(i), <<KindFrom(TyParam(0))>>))) }

(* The definitions index i may hold when its key.parent is p and `prev`    *)
(* are the definitions before it.  A CrateRoot key with a parent is the    *)
(* corrupt store of the assertion at line 120.                             *)
DefsAt(i, p, prev) ==
    { Def(DefKey(Some(p), DefPathData("TypeNs", i)), g, TyError, None) :
        g \in NamedGenerics(p, prev[p + 1].generics) }
    \cup { Def(DefKey(Some(p), DefPathData("ClosureExpr", 0)), g, TyError, None) :
        g \in ClosureGenerics(p, prev[p + 1].generics) }
    \cup ImplDefs(i, p)
    \cup { Def(DefKey(Some(p), DefPathData("CrateRoot", 0)), NoGenerics, TyError, None) }

(* key.parent of every index but 0: a smaller index, so that the parent    *)
(* chain is acyclic and ends at index 0.                                   *)
ParentVectors ==
    { pv \in [1 .. (NumDefs - 1) -> 0 .. (NumDefs - 2)] : \A i \in DOMAIN pv : pv[i] < i }

(* The indices on the parent chain of index i (i included).                *)
RECURSIVE ChainOf(_, _)
ChainOf(pv, i) == IF i = 0 THEN {0} ELSE {i} \cup ChainOf(pv, pv[i])

(* The length of the substitution with which print_def_path(from, <n       *)
(* arguments>) comes to print the ancestor `to` when every prefix closure  *)
(* is invoked: line 142 hands the parent the first parent_count arguments, *)
(* line 244 none; -1 if the CrateRoot arm ends the printing before `to`.   *)
RECURSIVE ReachedWith(_, _, _, _)
ReachedWith(store, from, n, to) ==
    IF from = to THEN n
    ELSE LET d == store[from + 1]
             kind == d.key.disambiguated_data.data.kind
         IN IF kind = "CrateRoot" THEN -1
            ELSE ReachedWith(store, Unwrap(d.key.parent),
                             IF kind = "Impl" \/ n = 0 THEN 0
                             ELSE Min(d.generics.parent_count, n), to)

(* Line 140 reads the Generics of a definition only under a non-empty      *)
(* substitution (line 125 reads an impl's always), and a definition that   *)
(* is not reached is not read at all: what is never read is module-like.   *)
UnreadIsPlain(store, pv, from, n) ==
    \A i \in ChainOf(pv, from) \ {0} :
       LET r == ReachedWith(store, from, n, i) IN
       /\ r = -1 => store[i + 1] = PlainDef(i, pv[i])
       /\ (r = 0 /\ store[i + 1].key.disambiguated_data.data.kind # "Impl")
             => store[i + 1].generics = NoGenerics

(* Generic arguments and substitutions.                                    *)
ArgVals == { KindFrom(TyBool), KindFrom(TyAdt(DefIdOf(1))) }


-----------------------------------------------------------------------------
VARIABLES
    tcx,          \* the definition store: tcx[i + 1] is the definition with index i
    entry,        \* the method the caller invoked: "print_def_path" or "print_impl_path"
    pc,           \* what runs next: a method, the Printer holding a prefix closure, or an end
    def_id,       \* argument def_id (impl_def_id) of the running method
    substs,       \* argument substs of the running method
    self_ty,      \* argument self_ty of print_impl_path
    trait_ref,    \* argument trait_ref of print_impl_path (an Option)
    print_prefix, \* the closure handed to the last path_* call
    args,         \* the slice the last generic_args_to_print returned
    calls,        \* the Printer's path_* methods called so far, in call order
    entered,      \* the (def_id, substs) of every print_def_path invocation, in order
    dropped       \* TRUE once the Printer returned without invoking a prefix closure

vars == <<tcx, entry, pc, def_id, substs, self_ty, trait_ref, print_prefix, args, calls,
          entered, dropped>>

(* The store's queries.                                                    *)
def_key(d) == tcx[d.index + 1].key
generics_of(d) == tcx[d.index + 1].generics
type_of(d) == tcx[d.index + 1].type_of
impl_trait_ref(d) == tcx[d.index + 1].impl_trait_ref
(* DefIdTree::parent.                                                      *)
parent(d) ==
    IF def_key(d).parent = None THEN None
    ELSE Some([d EXCEPT !.index = Unwrap(def_key(d).parent)])

(* One call of a Printer method; the fields a method does not take are     *)
(* empty.  `of` is the definition whose printing made the call.            *)
NoData == [data |-> DefPathData("", 0), disambiguator |-> 0]
Call(op, of, cnum, dd, a, ty, tr) ==
    [op |-> op, of |-> of, cnum |-> cnum, disambiguated_data |-> dd, args |-> a,
     self_ty |-> ty, trait_ref |-> tr]
path_crate(of, cnum) == Call("path_crate", of, cnum, NoData, <<>>, TyError, None)
path_qualified(of, ty, tr) == Call("path_qualified", of, "", NoData, <<>>, ty, tr)
path_append_impl(of, dd, ty, tr) == Call("path_append_impl", of, "", dd, <<>>, ty, tr)
path_append(of, dd) == Call("path_append", of, "", dd, <<>>, TyError, None)
path_generic_args(of, a) == Call("path_generic_args", of, "", NoData, a, TyError, None)

(* A print_prefix closure and what it captured: the closure of line 153    *)
(* ("generic_args"), of lines 169-177 ("append") or of line 244            *)
(* ("append_impl").                                                        *)
Closure(fn, tqp, d, s) == [fn |-> fn, trait_qualify_parent |-> tqp, def_id |-> d, substs |-> s]
NoClosure == Closure("", FALSE, DefIdOf(0), <<>>)

Frame(d, s) == [def_id |-> d, substs |-> s]

-----------------------------------------------------------------------------
(* default_print_def_path, lines 109-182.                                  *)
key == def_key(def_id)
data == key.disambiguated_data.data
parent_def_id == [def_id EXCEPT !.index = Unwrap(key.parent)]
generics == generics_of(def_id)
(* A variant for comparison: the whole substitution handed on, unsliced.   *)
WholeSubsts(g, s) == s
(* Line 142.                                                               *)
ParentSubsts(g, s) == SubSeq(s, 1, Min(g.parent_count, Len(s)))
parent_substs == IF substs = <<>> THEN substs ELSE ParentSubsts(generics, substs)
(* A variant for comparison: line 150 without the length test.             *)
HasParams(g, s) == g.params # <<>>
(* Line 150.                                                               *)
HasArgsToPrint(g, s) == g.params # <<>> /\ Len(s) >= count(g)
(* A variant for comparison: lines 161-165 without the test of line 165.   *)
TraitQualifyNestedParent(g, pd, ps, pg) ==
    /\ g.has_self
    /\ g.parent = Some(pd)
    /\ Len(ps) = g.parent_count
(* Lines 161-165.                                                          *)
TraitQualifyParent(g, pd, ps, pg) ==
    /\ g.has_self
    /\ g.parent = Some(pd)
    /\ Len(ps) = g.parent_count
    /\ pg.parent_count = 0
trait_qualify_parent ==
    /\ substs # <<>>
    /\ TraitQualifyParent(generics, parent_def_id, parent_substs, generics_of(parent_def_id))

(* A variant for comparison: lines 119-122 without the assertion.          *)
DefPathCrateRootUnasserted ==
    /\ pc = "print_def_path"
    /\ data.kind = "CrateRoot"
    /\ calls' = Append(calls, path_crate(def_id, def_id.krate))
    /\ pc' = "done"
    /\ UNCHANGED <<tcx, entry, def_id, substs, self_ty, trait_ref, print_prefix, args,
                   entered, dropped>>

(* Lines 119-122.                                                          *)
DefPathCrateRoot ==
    /\ pc = "print_def_path"
    /\ data.kind = "CrateRoot"
    /\ IF key.parent # None
       THEN /\ pc' = "panic_assert"
            /\ UNCHANGED calls
       ELSE /\ calls' = Append(calls, path_crate(def_id, def_id.krate))
            /\ pc' = "done"
    /\ UNCHANGED <<tcx, entry, def_id, substs, self_ty, trait_ref, print_prefix, args,
                   entered, dropped>>

(* Lines 128-131: the self type and trait reference handed on.             *)
ImplSubstituted(g, s) == Len(s) >= count(g)
ImplSelfTy(d, s) ==
    IF ImplSubstituted(generics_of(d), s) THEN SubstTy(type_of(d), s) ELSE type_of(d)
ImplTraitRef(d, s) ==
    IF ImplSubstituted(generics_of(d), s) THEN SubstTraitRef(impl_trait_ref(d), s)
    ELSE impl_trait_ref(d)
TraitRefHasSubstBug(otr) ==
    /\ otr # None
    /\ \E j \in DOMAIN Unwrap(otr).substs : HasSubstBug(Unwrap(otr).substs[j].ty)

(* Lines 124-133.                                                          *)
DefPathImpl ==
    /\ pc = "print_def_path"
    /\ data.kind = "Impl"
    /\ IF HasSubstBug(ImplSelfTy(def_id, substs))
          \/ TraitRefHasSubstBug(ImplTraitRef(def_id, substs))
       THEN /\ pc' = "panic_subst"
            /\ UNCHANGED <<self_ty, trait_ref>>
       ELSE /\ pc' = "print_impl_path"
            /\ self_ty' = ImplSelfTy(def_id, substs)
            /\ trait_ref' = ImplTraitRef(def_id, substs)
    /\ UNCHANGED <<tcx, entry, def_id, substs, print_prefix, args, calls, entered, dropped>>

(* A variant for comparison: the prefix closure of line 153 printing the   *)
(* parent, print_def_path(parent_def_id, parent_substs).                   *)
DefPathGenericArgsOverParent ==
    /\ pc = "print_def_path"
    /\ data.kind \notin {"CrateRoot", "Impl"}
    /\ substs # <<>>
    /\ data.kind # "ClosureExpr"
    /\ HasArgsToPrint(generics, substs)
    /\ LET r == generic_args_to_print(generics, substs) IN
       IF r.panic
       THEN /\ pc' = "panic_index"
            /\ UNCHANGED <<calls, print_prefix, args>>
       ELSE /\ args' = r.args
            /\ calls' = Append(calls, path_generic_args(def_id, r.args))
            /\ print_prefix' = Closure("generic_args", FALSE, parent_def_id, parent_substs)
            /\ pc' = "printer"
    /\ UNCHANGED <<tcx, entry, def_id, substs, self_ty, trait_ref, entered, dropped>>

(* Lines 135-156: the arm that returns path_generic_args.                  *)
DefPathGenericArgs ==
    /\ pc = "print_def_path"
    /\ data.kind \notin {"CrateRoot", "Impl"}
    /\ substs # <<>>
    /\ data.kind # "ClosureExpr"
    /\ HasArgsToPrint(generics, substs)
    /\ LET r == generic_args_to_print(generics, substs) IN
       IF r.panic
       THEN /\ pc' = "panic_index"
            /\ UNCHANGED <<calls, print_prefix, args>>
       ELSE /\ args' = r.args
            /\ calls' = Append(calls, path_generic_args(def_id, r.args))
            /\ print_prefix' = Closure("generic_args", FALSE, def_id, parent_substs)
            /\ pc' = "printer"
    /\ UNCHANGED <<tcx, entry, def_id, substs, self_ty, trait_ref, entered, dropped>>

(* A variant for comparison: path_append given a prefix closure that       *)
(* prints nothing.                                                         *)
DefPathAppendNoPrefix ==
    /\ pc = "print_def_path"
    /\ data.kind \notin {"CrateRoot", "Impl"}
    /\ ~(substs # <<>> /\ data.kind # "ClosureExpr" /\ HasArgsToPrint(generics, substs))
    /\ calls' = Append(calls, path_append(def_id, key.disambiguated_data))
    /\ pc' = "done"
    /\ UNCHANGED <<tcx, entry, def_id, substs, self_ty, trait_ref, print_prefix, args,
                   entered, dropped>>

(* Lines 135-179: the arm that ends in path_append.                        *)
DefPathAppend ==
    /\ pc = "print_def_path"
    /\ data.kind \notin {"CrateRoot", "Impl"}
    /\ ~(substs # <<>> /\ data.kind # "ClosureExpr" /\ HasArgsToPrint(generics, substs))
    /\ calls' = Append(calls, path_append(def_id, key.disambiguated_data))
    /\ print_prefix' = Closure("append", trait_qualify_parent, parent_def_id, parent_substs)
    /\ pc' = "printer"
    /\ UNCHANGED <<tcx, entry, def_id, substs, self_ty, trait_ref, args, entered, dropped>>

(* default_print_impl_path, lines 212-254.                                 *)
InSelfMod(ty, pd) ==
    LET c == characteristic_def_id_of_type(ty) IN
    IF c = None THEN FALSE ELSE parent(Unwrap(c)) = Some(pd)
InTraitMod(otr, pd) ==
    IF otr = None THEN FALSE ELSE parent(Unwrap(otr).def_id) = Some(pd)
(* A variant for comparison: line 239 with || for &&.                      *)
ImplNeedsParentPathEither(ty, otr, pd) == ~InSelfMod(ty, pd) \/ ~InTraitMod(otr, pd)
(* Line 239.                                                               *)
ImplNeedsParentPath(ty, otr, pd) == ~InSelfMod(ty, pd) /\ ~InTraitMod(otr, pd)

(* Lines 239-248.                                                          *)
ImplPathAppend ==
    /\ pc = "print_impl_path"
    /\ ImplNeedsParentPath(self_ty, trait_ref, parent_def_id)
    /\ calls' = Append(calls, path_append_impl(def_id, key.disambiguated_data, self_ty,
                                               trait_ref))
    /\ print_prefix' = Closure("append_impl", FALSE, parent_def_id, <<>>)
    /\ pc' = "printer"
    /\ UNCHANGED <<tcx, entry, def_id, substs, self_ty, trait_ref, args, entered, dropped>>

(* Lines 249-253.                                                          *)
ImplPathQualified ==
    /\ pc = "print_impl_path"
    /\ ~ImplNeedsParentPath(self_ty, trait_ref, parent_def_id)
    /\ calls' = Append(calls, path_qualified(def_id, self_ty, trait_ref))
    /\ pc' = "done"
    /\ UNCHANGED <<tcx, entry, def_id, substs, self_ty, trait_ref, print_prefix, args,
                   entered, dropped>>

(* The Printer invokes the closure it was handed, and the closure calls    *)
(* print_def_path: lines 153, 176, 244.                                    *)
PrefixPrintDefPath ==
    /\ pc = "printer"
    /\ ~print_prefix.trait_qualify_parent
    /\ pc' = "print_def_path"
    /\ def_id' = print_prefix.def_id
    /\ substs' = print_prefix.substs
    /\ entered' = Append(entered, Frame(print_prefix.def_id, print_prefix.substs))
    /\ UNCHANGED <<tcx, entry, self_ty, trait_ref, print_prefix, args, calls, dropped>>

(* A variant for comparison: the closure of lines 169-177 going on to      *)
(* print the trait's own path after path_qualified.                        *)
PrefixQualifiedThenParent ==
    /\ pc = "printer"
    /\ print_prefix.trait_qualify_parent
    /\ print_prefix.substs # <<>>
    /\ LET tr == TraitRef(print_prefix.def_id, print_prefix.substs) IN
         calls' = Append(calls, path_qualified(def_id, TraitRef_self_ty(tr), Some(tr)))
    /\ pc' = "print_def_path"
    /\ def_id' = print_prefix.def_id
    /\ substs' = <<>>
    /\ entered' = Append(entered, Frame(print_prefix.def_id, <<>>))
    /\ UNCHANGED <<tcx, entry, self_ty, trait_ref, print_prefix, args, dropped>>

(* The Printer invokes the closure of lines 169-177 and                    *)
(* trait_qualify_parent is set: lines 170-174.  trait_ref.self_ty() is     *)
(* substs.type_at(0).                                                      *)
PrefixQualified ==
    /\ pc = "printer"
    /\ print_prefix.trait_qualify_parent
    /\ IF print_prefix.substs = <<>>
       THEN /\ pc' = "panic_index"
            /\ UNCHANGED calls
       ELSE LET tr == TraitRef(print_prefix.def_id, print_prefix.substs) IN
            /\ calls' = Append(calls, path_qualified(def_id, TraitRef_self_ty(tr), Some(tr)))
            /\ pc' = "done"
    /\ UNCHANGED <<tcx, entry, def_id, substs, self_ty, trait_ref, print_prefix, args,
                   entered, dropped>>

(* The Printer returns without invoking the closure (an FnOnce need not be *)
(* called).                                                                *)
PrefixDropped ==
    /\ pc = "printer"
    /\ pc' = "done"
    /\ dropped' = TRUE
    /\ UNCHANGED <<tcx, entry, def_id, substs, self_ty, trait_ref, print_prefix, args, calls,
                   entered>>

Next ==
    \/ DefPathCrateRoot
    \/ DefPathImpl
    \/ DefPathGenericArgs
    \/ DefPathAppend
    \/ ImplPathAppend
    \/ ImplPathQualified
    \/ PrefixPrintDefPath
    \/ PrefixQualified
    \/ PrefixDropped

(* tcx is a store of NumDefs definitions with parents pv that begins with  *)
(* `prev`.  print_def_path(d, ..) reads the keys and Generics on d's       *)
(* parent chain only, and of the other definitions only their parent: the  *)
(* definitions off `chain` are module-like.                                *)
RECURSIVE StoreOf(_, _, _)
StoreOf(prev, pv, chain) ==
    LET i == Len(prev) IN
    IF i = NumDefs THEN tcx = prev
    ELSE \E d \in IF i \in chain THEN DefsAt(i, pv[i], prev) ELSE { PlainDef(i, pv[i]) } :
           StoreOf(Append(prev, d), pv, chain)

(* The caller invokes print_def_path(def_id, substs).                      *)
InitDefPath ==
    /\ def_id \in DefIds
    /\ \E pv \in ParentVectors : \E n \in 0 .. MaxSubsts :
         /\ StoreOf(<<TheCrateRoot>>, pv, ChainOf(pv, def_id.index))
         /\ UnreadIsPlain(tcx, pv, def_id.index, n)
         /\ substs \in [1 .. n -> ArgVals]
    /\ entry = "print_def_path"
    /\ pc = "print_def_path"
    /\ self_ty = TyError
    /\ trait_ref = None
    /\ print_prefix = NoClosure
    /\ args = <<>>
    /\ calls = <<>>
    /\ entered = <<Frame(def_id, substs)>>
    /\ dropped = FALSE

(* The self types a caller of print_impl_path passes: every constructor    *)
(* characteristic_def_id_of_type tells apart, over the store's DefIds.     *)
SelfTypes ==
    { TyBool, TyStr, TyParam(0), TyDynamic(None), TyRef(TyBool), TyTuple(<<>>),
      TyTuple(<<TyBool, TyStr>>) }
    \cup UNION { { TyAdt(d), TyFnDef(d), TyForeign(d), TyDynamic(Some(d)), TyRef(TyAdt(d)),
                   TySlice(TyAdt(d)), TyRawPtr(TyAdt(d)), TyTuple(<<TyBool, TyAdt(d)>>),
                   TyTuple(<<TyDynamic(None), TyRef(TyAdt(d))>>) } : d \in DefIds }
    \cup { TyTuple(<<TyAdt(d), TyAdt(e)>>) : d \in DefIds, e \in DefIds }

(* The caller invokes print_impl_path(impl_def_id, substs, self_ty,        *)
(* trait_ref) on an impl of the store.  The method ignores substs and      *)
(* prints the parent with no substitution, so that no Generics are read:   *)
(* the other definitions are module-like.                                  *)
InitImplPath ==
    /\ def_id \in DefIds
    /\ def_id.index # 0
    /\ \E pv \in ParentVectors :
         tcx = [i \in 1 .. NumDefs |->
                  IF i = 1 THEN TheCrateRoot
                  ELSE IF i - 1 = def_id.index
                       THEN Def(DefKey(Some(pv[i - 1]), DefPathData("Impl", 0)), NoGenerics,
                                TyBool, None)
                       ELSE PlainDef(i - 1, pv[i - 1])]
    /\ substs = <<>>
    /\ self_ty \in SelfTypes
    /\ \E otr \in {None} \cup { Some(d) : d \in DefIds } :
         trait_ref = IF otr = None THEN None
                     ELSE Some(TraitRef(Unwrap(otr), <<KindFrom(self_ty)>>))
    /\ entry = "print_impl_path"
    /\ pc = "print_impl_path"
    /\ print_prefix = NoClosure
    /\ args = <<>>
    /\ calls = <<>>
    /\ entered = <<>>
    /\ dropped = FALSE

Init == InitDefPath \/ InitImplPath

Spec == Init /\ [][Next]_vars

(* The program runs on: a method that can take a step takes it, and the    *)
(* Printer returns from every call.                                        *)
SpecLive == Init /\ [][Next]_vars /\ WF_vars(Next)


-----------------------------------------------------------------------------
(* generic_args_to_print called on its own (it is a method of the trait,   *)
(* which the printers call for the arguments of a path).                   *)

(* Own parameter lists of length n whose first index is `first`: every     *)
(* kind of                                                                 *)
(* parameter, a Type with no default, with the default bool, or with the   *)
(* default "the first parameter".                                          *)
ParamKinds ==
    { <<"Lifetime", FALSE, TyError>>, <<"Const", FALSE, TyError>>, <<"Type", FALSE, TyError>>,
      <<"Type", TRUE, TyBool>>, <<"Type", TRUE, TyParam(0)>> }
ParamLists(first, n) ==
    { [j \in 1 .. n |-> Param(first + j - 1, ks[j][1], ks[j][2], ks[j][3])] :
        ks \in [1 .. n -> ParamKinds] }

(* Generics with 0 or 1 parent parameters.  With has_self the parameter of *)
(* index 0 is Self, a Type with no default: it is the first own parameter  *)
(* when there is no parent parameter.                                      *)
FilterGenerics ==
    { g \in UNION { { Generics(None, pcount, l, hs) : l \in ParamLists(pcount, n) } :
                      pcount \in 0 .. 1, n \in 0 .. MaxParams, hs \in BOOLEAN } :
        (g.has_self /\ g.parent_count = 0) => (g.params # <<>> /\ g.params[1] = SelfParam) }

FilterArgVals == { KindFrom(TyBool), KindFrom(TyAdt(DefIdOf(1))), KindLifetime }

InitFilter ==
    /\ \E g \in FilterGenerics :
         tcx = <<Def(DefKey(None, DefPathData("TypeNs", 0)), g, TyError, None)>>
    /\ def_id = DefIdOf(0)
    /\ substs \in UNION { [1 .. k -> FilterArgVals] : k \in 0 .. (MaxParams + 1) }
    /\ Len(substs) <= count(generics) + 1
    /\ entry = "generic_args_to_print"
    /\ pc = "generic_args_to_print"
    /\ self_ty = TyError
    /\ trait_ref = None
    /\ print_prefix = NoClosure
    /\ args = <<>>
    /\ calls = <<>>
    /\ entered = <<>>
    /\ dropped = FALSE

(* The call generic_args_to_print(generics, substs), lines 184-210.        *)
GenericArgsToPrint ==
    /\ pc = "generic_args_to_print"
    /\ LET r == generic_args_to_print(generics, substs) IN
       /\ pc' = IF r.panic THEN "panic_index" ELSE "done"
       /\ args' = r.args
    /\ UNCHANGED <<tcx, entry, def_id, substs, self_ty, trait_ref, print_prefix, calls,
                   entered, dropped>>

NextFilter == GenericArgsToPrint

SpecFilter == InitFilter /\ [][NextFilter]_vars


-----------------------------------------------------------------------------
(* Vocabulary of the properties.                                           *)
Ended == pc \in {"done", "panic_assert", "panic_index", "panic_subst"}
LastCall == calls[Len(calls)]
CallsOf(op) == { i \in DOMAIN calls : calls[i].op = op }
KindOf(d) == def_key(d).disambiguated_data.data.kind
(* The definition and substitution the caller passed to print_def_path.    *)
Asked == entered[1]
(* Parent steps from d to the first key of kind CrateRoot.                 *)
RECURSIVE StepsToCrateRoot(_)
StepsToCrateRoot(d) ==
    IF KindOf(d) = "CrateRoot" THEN 0 ELSE 1 + StepsToCrateRoot(Unwrap(parent(d)))
(* Invocations of print_def_path made by a prefix closure: all but the     *)
(* caller's.                                                               *)
RecursivePrints == Len(entered) - 1
ParentPrints ==
    { i \in 1 .. (Len(entered) - 1) : Some(entered[i + 1].def_id) = parent(entered[i].def_id) }
SameDefPrints ==
    { i \in 1 .. (Len(entered) - 1) : entered[i + 1].def_id = entered[i].def_id }

-----------------------------------------------------------------------------
(* C1.  Crate root c, module bar in c, non-impl item foo in bar:           *)
(* print_def_path(foo, []) with every prefix closure invoked makes exactly *)
(* three Printer calls, path_append("foo") whose prefix is                 *)
(* path_append("bar") whose prefix is path_crate(c) -- so the path is      *)
(* built as c, then bar on top of it, then foo on top of that -- and no    *)
(* path_qualified, path_append_impl or path_generic_args.  (`calls` lists  *)
(* the calls outermost first.)                                             *)
C1_Scenario ==
    /\ entry = "print_def_path"
    /\ Asked = Frame(DefIdOf(2), <<>>)
    /\ def_key(DefIdOf(2)).parent = Some(1)
    /\ KindOf(DefIdOf(2)) \in {"TypeNs", "ClosureExpr"}
    /\ def_key(DefIdOf(1)).parent = Some(0)
    /\ KindOf(DefIdOf(1)) = "TypeNs"
C1_FooBarCrate ==
    C1_Scenario =>
        /\ Len(calls) <= 3
        /\ \A i \in DOMAIN calls :
             calls[i].op \notin {"path_qualified", "path_append_impl", "path_generic_args"}
        /\ (pc = "done" /\ ~dropped) =>
             calls = << path_append(DefIdOf(2), def_key(DefIdOf(2)).disambiguated_data),
                        path_append(DefIdOf(1), def_key(DefIdOf(1)).disambiguated_data),
                        path_crate(DefIdOf(0), LOCAL_CRATE) >>
C1_Witness == C1_Scenario /\ pc = "done" /\ ~dropped /\ Len(calls) = 3

(* C2 as stated.  A resolution that reaches path_crate has made exactly k  *)
(* recursive print_def_path calls, k the parent steps from the definition  *)
(* asked for to the crate root.                                            *)
C2_ExactlyKRecursivePrints ==
    (entry = "print_def_path" /\ pc = "done" /\ LastCall.op = "path_crate") =>
        RecursivePrints = StepsToCrateRoot(Asked.def_id)

(* C2 amended.  A resolution that reaches path_crate has made exactly k    *)
(* recursive prints of a parent, and one more recursive print, of the same *)
(* definition, for every path_generic_args call; a resolution in which     *)
(* path_qualified is called never reaches path_crate.                      *)
C2_KParentPrintsPlusReentries ==
    entry = "print_def_path" =>
        /\ (pc = "done" /\ LastCall.op = "path_crate") =>
             /\ Cardinality(ParentPrints) = StepsToCrateRoot(Asked.def_id)
             /\ Cardinality(SameDefPrints) = Cardinality(CallsOf("path_generic_args"))
             /\ RecursivePrints = Cardinality(ParentPrints) + Cardinality(SameDefPrints)
        /\ ~(CallsOf("path_qualified") # {} /\ CallsOf("path_crate") # {})
C2_Witness ==
    /\ entry = "print_def_path"
    /\ pc = "done"
    /\ LastCall.op = "path_crate"
    /\ StepsToCrateRoot(Asked.def_id) = 2
    /\ Cardinality(CallsOf("path_generic_args")) = 2

(* C3 as stated.  When the assertion of line 120 fails, no Printer method  *)
(* has been called in that resolution, also when the CrateRoot key with a  *)
(* parent is an ancestor of the definition asked for.                      *)
C3_NoCallBeforeAbort == pc = "panic_assert" => calls = <<>>

(* C3 amended.  path_crate is never called for a CrateRoot key that has a  *)
(* parent: the resolution aborts on the assertion instead.  At the abort   *)
(* no call has been made if the key is that of the definition the caller   *)
(* passed; if it is an ancestor's, the calls made are the path_append,     *)
(* path_append_impl and path_generic_args calls whose prefix closures are  *)
(* being evaluated, one at least, and none has returned a path.            *)
C3_AbortOnCrateRootWithParent ==
    /\ \A i \in CallsOf("path_crate") : def_key(calls[i].of).parent = None
    /\ pc = "panic_assert" =>
         /\ KindOf(def_id) = "CrateRoot" /\ def_key(def_id).parent # None
         /\ \A i \in DOMAIN calls :
              calls[i].op \in {"path_append", "path_append_impl", "path_generic_args"}
         /\ (calls = <<>>) = (entry = "print_def_path" /\ Len(entered) = 1)
C3_Witness ==
    /\ pc = "panic_assert"
    /\ Len(calls) >= 2
    /\ def_id # Asked.def_id


(* C4.  print_impl_path chooses its form by co-location alone.  If the     *)
(* self type has a representative definition whose parent is the impl's    *)
(* parent, or there is a trait reference whose trait's parent is the       *)
(* impl's parent, its one Printer call is path_qualified(self_ty,          *)
(* trait_ref) and it ends there, no parent path printed.  Otherwise (also  *)
(* with no representative and no trait reference) the call is              *)
(* path_append_impl, whose prefix closure prints the impl's parent with    *)
(* the empty substitution.                                                 *)
C4_CoLocated ==
    LET rep == characteristic_def_id_of_type(self_ty) IN
    \/ rep # None /\ parent(Unwrap(rep)) = parent(def_id)
    \/ trait_ref # None /\ parent(Unwrap(trait_ref).def_id) = parent(def_id)
C4_ImplPathByCoLocation ==
    [][pc = "print_impl_path" =>
         IF C4_CoLocated
         THEN /\ calls' = Append(calls, path_qualified(def_id, self_ty, trait_ref))
              /\ pc' = "done"
         ELSE /\ calls' = Append(calls, path_append_impl(def_id, def_key(def_id).disambiguated_data,
                                                          self_ty, trait_ref))
              /\ pc' = "printer"
              /\ print_prefix' = Closure("append_impl", FALSE, Unwrap(parent(def_id)), <<>>)]_vars
C4_Witness ==
    /\ pc = "done"
    /\ LastCall.op = "path_qualified"
    /\ LastCall.of = def_id
    /\ KindOf(def_id) = "Impl"
    /\ self_ty.sty = "Tuple"
    /\ Len(self_ty.tys) = 2
    /\ characteristic_def_id_of_type(self_ty.tys[1]) = None
    /\ characteristic_def_id_of_type(self_ty) # None
    /\ trait_ref = None

(* C5.  generic_args_to_print returns substs[start .. end): start is       *)
(* parent_count, or 1 when has_self is set and parent_count is 0; end is   *)
(* count() less the length of the longest trailing run of own parameters   *)
(* that are Type parameters with a default whose default, instantiated     *)
(* against the substitution, is the argument at the parameter's index.  A  *)
(* parameter before a Lifetime, Const, default-less or non-matching one is *)
(* kept even when it matches its default.                                  *)
C5_Omittable(j) ==
    LET param == generics.params[j] IN
    /\ param.kind = "Type"
    /\ param.has_default
    /\ substs[param.index + 1].kind = "Type"
    /\ substs[param.index + 1].ty = SubstTy(param.default, substs)
C5_TrailingRun ==
    CHOOSE r \in 0 .. Len(generics.params) :
        /\ \A j \in (Len(generics.params) - r + 1) .. Len(generics.params) : C5_Omittable(j)
        /\ r < Len(generics.params) => ~C5_Omittable(Len(generics.params) - r)
C5_FilterIsTrailingDefaults ==
    (entry = "generic_args_to_print" /\ pc = "done") =>
        LET start == IF generics.has_self /\ generics.parent_count = 0
                     THEN 1 ELSE generics.parent_count
            end == count(generics) - C5_TrailingRun
        IN /\ start <= end
           /\ end <= Len(substs)
           /\ args = [j \in 1 .. (end - start) |-> substs[start + j]]
C5_Witness ==
    /\ entry = "generic_args_to_print"
    /\ pc = "done"
    /\ Len(generics.params) = 3
    /\ generics.parent_count = 1
    /\ C5_Omittable(1)
    /\ ~C5_Omittable(2)
    /\ generics.params[2].has_default
    /\ C5_Omittable(3)
    /\ Len(args) = 2

(* C6.  print_def_path terminates: a resolution only moves from a          *)
(* definition to itself once (the prefix of path_generic_args, which       *)
(* cannot take the generic-arguments arm again) or to its parent, so that  *)
(* every definition is entered at most twice and takes the                 *)
(* generic-arguments arm at most once; and every resolution ends.          *)
C6_ReentersOnce ==
    /\ \A i \in 1 .. (Len(entered) - 1) :
         \/ Some(entered[i + 1].def_id) = parent(entered[i].def_id)
         \/ /\ entered[i + 1].def_id = entered[i].def_id
            /\ Len(entered[i + 1].substs) < Len(entered[i].substs)
            /\ ~HasArgsToPrint(generics_of(entered[i + 1].def_id), entered[i + 1].substs)
    /\ \A d \in DefIds :
         /\ Cardinality({ i \in DOMAIN entered : entered[i].def_id = d }) <= 2
         /\ Cardinality({ i \in CallsOf("path_generic_args") : calls[i].of = d }) <= 1
    /\ Len(entered) <= 2 * NumDefs
C6_Terminates == []C6_ReentersOnce /\ <>Ended
C6_Witness ==
    /\ pc = "done"
    /\ ~dropped
    /\ Len(entered) = 2 * NumDefs - 1
    /\ LastCall.op = "path_crate"

(* C7 as stated.  path_generic_args is called only with a non-empty        *)
(* filtered argument list: when generic_args_to_print returns the empty    *)
(* slice the definition is printed by the plain path_append arm.           *)
C7_GenericArgsNeverEmpty ==
    \A i \in CallsOf("path_generic_args") : calls[i].args # <<>>

(* C8 as stated.  The prefix of path_generic_args prints the parent of the *)
(* definition, and no path_append is made for the definition's own         *)
(* segment in that resolution.                                             *)
C8_PrefixIsParentPath ==
    /\ (pc = "printer" /\ print_prefix.fn = "generic_args") =>
         print_prefix = Closure("generic_args", FALSE, parent_def_id, parent_substs)
    /\ \A i \in CallsOf("path_generic_args") :
         \A j \in CallsOf("path_append") : calls[j].of # calls[i].of

(* C8 amended.  The prefix of path_generic_args prints the SAME            *)
(* definition with parent_substs, the first min(parent_count, len)         *)
(* arguments; the invocation that took the arm makes no other Printer      *)
(* call, and the re-entry, once the Printer invokes the prefix, appends    *)
(* the definition's own segment with path_append.                          *)
C8_PrefixIsSameDefWithoutOwnArgs ==
    /\ (pc = "printer" /\ print_prefix.fn = "generic_args") =>
         /\ LastCall.op = "path_generic_args"
         /\ LastCall.of = def_id
         /\ print_prefix.def_id = def_id
         /\ print_prefix.substs =
              [j \in 1 .. Min(generics.parent_count, Len(substs)) |-> substs[j]]
    /\ \A i \in CallsOf("path_generic_args") :
         i < Len(calls) =>
             calls[i + 1] = path_append(calls[i].of, def_key(calls[i].of).disambiguated_data)
C8_Witness ==
    /\ pc = "done"
    /\ ~dropped
    /\ Len(calls) = 3
    /\ calls[1].op = "path_generic_args"
    /\ calls[2].op = "path_append"
    /\ calls[2].of = calls[1].of
    /\ Asked.substs = calls[1].args


(* C9.  A non-impl, non-root definition that reaches the path_append arm   *)
(* gets the trait-qualified prefix, path_qualified(self type of            *)
(* TraitRef(parent id, parent substs), that trait reference), exactly when *)
(* the substitution is non-empty, its Generics have has_self, their parent *)
(* link is the parent id, the parent substitution is parent_count long and *)
(* the parent's own parent_count is 0; otherwise the prefix is             *)
(* print_def_path(parent id, parent substs).  Either way its own segment   *)
(* is appended with path_append.                                           *)
C9_ParentId == Unwrap(parent(def_id))
C9_ParentSubsts ==
    IF substs = <<>> THEN <<>>
    ELSE [j \in 1 .. Min(generics_of(def_id).parent_count, Len(substs)) |-> substs[j]]
C9_Qualify ==
    /\ substs # <<>>
    /\ generics_of(def_id).has_self
    /\ generics_of(def_id).parent = parent(def_id)
    /\ Len(C9_ParentSubsts) = generics_of(def_id).parent_count
    /\ generics_of(C9_ParentId).parent_count = 0
C9_TraitQualifiedPrefix ==
    /\ (pc = "printer" /\ print_prefix.fn = "append") =>
         /\ LastCall = path_append(def_id, def_key(def_id).disambiguated_data)
         /\ print_prefix = Closure("append", C9_Qualify, C9_ParentId, C9_ParentSubsts)
    /\ (Len(calls) >= 2 /\ LastCall.op = "path_qualified" /\ KindOf(LastCall.of) # "Impl") =>
         /\ C9_Qualify
         /\ calls[Len(calls) - 1] = path_append(def_id, def_key(def_id).disambiguated_data)
         /\ LastCall = path_qualified(def_id, C9_ParentSubsts[1].ty,
                                      Some(TraitRef(C9_ParentId, C9_ParentSubsts)))
    /\ (pc = "print_def_path" /\ Len(entered) >= 2 /\ LastCall.op = "path_append") =>
         /\ Some(def_id) = parent(LastCall.of)
         /\ ~print_prefix.trait_qualify_parent
         /\ substs = print_prefix.substs
C9_Witness ==
    /\ pc = "done"
    /\ Len(calls) = 3
    /\ calls[1].op = "path_generic_args"
    /\ calls[2].op = "path_append"
    /\ calls[3].op = "path_qualified"
    /\ calls[3].self_ty = TyAdt(DefIdOf(1))

(* C10.  Whatever the length of the substitution, print_def_path never     *)
(* slices or indexes it out of bounds: parent_substs is the prefix of      *)
(* length min(parent_count, len); generic_args_to_print is invoked only    *)
(* when len >= count() and returns a range with start <= end <= len; a     *)
(* non-empty substitution shorter than count() is printed by the plain     *)
(* path_append arm; and an impl's self type and trait reference are        *)
(* instantiated only when len >= count() and passed on as declared         *)
(* otherwise.                                                              *)
C10_InBounds ==
    entry = "print_def_path" =>
        /\ pc \notin {"panic_index", "panic_subst"}
        /\ (pc = "printer" /\ print_prefix.fn \in {"generic_args", "append"}) =>
             print_prefix.substs =
                [j \in 1 .. Min(generics_of(def_id).parent_count, Len(substs)) |-> substs[j]]
        /\ (pc = "printer" /\ print_prefix.fn = "generic_args") =>
             /\ Len(substs) >= count(generics_of(def_id))
             /\ \E start \in 0 .. Len(substs) : \E end \in start .. Len(substs) :
                   LastCall.args = [j \in 1 .. (end - start) |-> substs[start + j]]
        /\ (pc = "printer" /\ KindOf(def_id) # "Impl" /\ substs # <<>>
              /\ Len(substs) < count(generics_of(def_id))) =>
             LastCall.op = "path_append"
        /\ (pc = "print_impl_path" /\ KindOf(def_id) = "Impl") =>
             IF Len(substs) >= count(generics_of(def_id))
             THEN /\ self_ty = SubstTy(type_of(def_id), substs)
                  /\ trait_ref = SubstTraitRef(impl_trait_ref(def_id), substs)
             ELSE /\ self_ty = type_of(def_id)
                  /\ trait_ref = impl_trait_ref(def_id)
C10_Witness ==
    /\ entry = "print_def_path"
    /\ pc = "printer"
    /\ KindOf(def_id) = "TypeNs"
    /\ Len(substs) = 1
    /\ generics_of(def_id).parent_count = 2
    /\ count(generics_of(def_id)) = 3
    /\ LastCall.op = "path_append"

====
